---- MODULE Spec2Model ----
(***************************************************************************)
(* Model of src/main.py: the deferred-literal type inference core.         *)
(* A function body is fed to infer_types one statement at a time; infer    *)
(* assigns provisional types (Int / Float placeholders or Normal concrete  *)
(* types) to expression nodes, unify pins a placeholder to a concrete type *)
(* and cascades the result, resolve defaults whatever is left.             *)
(***************************************************************************)
EXTENDS Integers, Sequences, FiniteSets, TLC

\* ------------------------------------------------------------------ bounds
MaxStmts == 3
MaxNodes == 5

\* ------------------------------------------------------- concrete types Ty
NoneTy == "None"
IntTys == {"i32", "i64"}
FloatTys == {"f32", "f64"}
Tys == IntTys \cup FloatTys
Names == {"a", "b"}
\* the annotations and the return types the front end hands in: one tag of
\* each class as an annotation, a second integer tag as a return type
AnnTys == {"i32", "f32"}
RetTys == {"i32", "i64", "f32"}

is_int(t) == t = "i32" \/ t = "i64"
is_float(t) == t = "f32" \/ t = "f64"
TyEq(t, o) == o = t

\* ------------------------------------------------------ inference types T
IntT(id) == [k |-> "Int", node_id |-> id, ty |-> NoneTy]
FloatT(id) == [k |-> "Float", node_id |-> id, ty |-> NoneTy]
Normal(t) == [k |-> "Normal", node_id |-> -1, ty |-> t]
IsPlaceholder(t) == t.k = "Int" \/ t.k = "Float"

\* T.__eq__ compares the node_id field only (Normal carries -1)
TEq(t, o) == t.node_id = o.node_id

\* ------------------------------------------------------ finite-map helpers
EmptyMap == [x \in {} |-> NoneTy]
\* d[key] = v
Put(f, key, v) == (key :> v) @@ f
\* d.pop(key) when the key is there, nothing otherwise
Drop(f, key) == [x \in (DOMAIN f) \ {key} |-> f[x]]
\* a local variable: v is computed once and named x in F
Bind(v, F(_)) == CHOOSE y \in {F(x) : x \in {v}} : TRUE

\* ---------------------------------------------------------------- the AST
\* An expression is written in prefix form as a sequence of tokens:
\* "IntLit", "FloatLit", a name (an Ident), or "Binary" followed by the two
\* operands.  Constructing it numbers the nodes with gen_node_id in the
\* order Python evaluates nested constructor calls: operands first.
LeafToks == {"IntLit", "FloatLit"} \cup Names

RECURSIVE Trees(_)
Trees(n) ==
    IF n = 1 THEN {<<t>> : t \in LeafToks}
    ELSE IF n < 3 THEN {}
    ELSE UNION {{<<"Binary">> \o l \o r : l \in Trees(i), r \in Trees(n - 1 - i)}
                : i \in 1..(n - 2)}

\* an expression has an odd number of nodes
TreeSizes == {n \in 1..MaxNodes : n % 2 = 1}

Leaf(kind, name) == [kind |-> kind, name |-> name, left |-> 0, right |-> 0]
BinaryNode(l, r) == [kind |-> "Binary", name |-> "", left |-> l, right |-> r]

\* Construct the expression starting at toks[pos]; nd is the node table so
\* far and cnt the global node_id counter.  Returns the grown table, the
\* root's id, the counter and the position after the expression.
RECURSIVE Build(_, _, _, _)
Build(toks, pos, nd, cnt) ==
    IF toks[pos] = "Binary" THEN
        Bind(Build(toks, pos + 1, nd, cnt), LAMBDA l :
        Bind(Build(toks, l.pos, l.nd, l.cnt), LAMBDA r :
            [nd |-> Put(r.nd, r.cnt + 1, BinaryNode(l.root, r.root)),
             root |-> r.cnt + 1, cnt |-> r.cnt + 1, pos |-> r.pos]))
    ELSE
        [nd |-> Put(nd, cnt + 1,
                    IF toks[pos] = "IntLit" THEN Leaf("IntLit", "")
                    ELSE IF toks[pos] = "FloatLit" THEN Leaf("FloatLit", "")
                    ELSE Leaf("Ident", toks[pos])),
         root |-> cnt + 1, cnt |-> cnt + 1, pos |-> pos + 1]

\* ------------------------------------------------------------------ state
VARIABLES
    node_id,       \* the global node id counter
    nodes,         \* the expression nodes built so far: id -> node
    expr_ty,       \* Expr.ty, the type slot of each node (NoneTy when empty)
    bindings,      \* Env.bindings: name -> T
    binding_id,    \* Env.binding_id: Ident node id -> referenced name
    unresolved,    \* Env.unresolved: node id -> placeholder
    exprs,         \* Env.exprs: the ids registered by infer
    paren_exprs,   \* Env.paren_exprs: operand id -> enclosing Binary id
    stmts,         \* Fn.stmts processed so far: [name, ty, init]
    last_expr,     \* Fn.last_expr (root id, 0 when absent)
    ret_ty,        \* Fn.ret_ty
    pc,            \* "stmts", "done", "defaulted", "failed"
    err,           \* the assertion that ended the pass ("none" if none)
    inferred,      \* node id -> the T that infer returned for it
    pinned,        \* node ids whose slot a unify call wrote
    unify_calls,   \* the unify calls of the last step, in order
    binary_log     \* the Binary nodes infer combined in the last step

vars == <<node_id, nodes, expr_ty, bindings, binding_id, unresolved, exprs,
          paren_exprs, stmts, last_expr, ret_ty, pc, err, inferred, pinned,
          unify_calls, binary_log>>

\* The part of the program state that a unify call can write.
Snapshot(s) == [bindings |-> s.bindings, binding_id |-> s.binding_id,
                unresolved |-> s.unresolved, expr_ty |-> s.expr_ty]

Raise(s, what) == [s EXCEPT !.err = what]

\* Env.add_binding
add_binding(s, name, ty) == [s EXCEPT !.bindings = Put(@, name, ty)]

\* Env.pop_unres: the entry is removed if it is there
pop_unres(s, id) == [s EXCEPT !.unresolved = Drop(@, id)]

\* a write of a type slot in unify (pexpr.ty, left.ty, right.ty, iexpr.ty),
\* remembered in pinned
SetTy(s, id, t) == [s EXCEPT !.expr_ty = Put(@, id, t), !.pinned = @ \cup {id}]

\* x.ty = expected; env.pop_unres(x.node_id)
PinNode(s, id, expected) == pop_unres(SetTy(s, id, expected), id)

\* ------------------------------------------------------------------ unify
\* lines 229-239: the enclosing Binary of entry i, and through it both of
\* its operands, are given the expected type
PinParent(s, nd, i, expected) ==
    IF i \in DOMAIN s.paren_exprs
    THEN IF nd[s.paren_exprs[i]].kind = "Binary"
         THEN PinNode(PinNode(PinNode(s, s.paren_exprs[i], expected),
                              nd[s.paren_exprs[i]].left, expected),
                      nd[s.paren_exprs[i]].right, expected)
         ELSE PinNode(s, s.paren_exprs[i], expected)
    ELSE s

\* lines 241-243: the name recorded for entry i is rebound to Normal(expected)
RebindOrigin(s, i, expected) ==
    IF i \in DOMAIN s.binding_id
    THEN [s EXCEPT !.bindings = Put(@, s.binding_id[i], Normal(expected)),
                   !.binding_id = Drop(@, i)]
    ELSE s

\* A faulty variant of UnifyEntry: the entry is matched by its key against the origin id
\* of the placeholder instead of by the placeholder it stores, so only the
\* node that produced the placeholder is pinned.
UnifyEntry_KeyMatch(s, nd, i, t, ty, expected) ==
    IF i # ty.node_id THEN s
    ELSE PinNode(s, i, expected)

\* the body of the for-loop of unify.f for one entry (i, t) of the copied
\* item list
UnifyEntry(s, nd, i, t, ty, expected) ==
    IF ~TEq(t, ty) THEN s
    ELSE Bind(PinParent(s, nd, i, expected), LAMBDA s1 :
         Bind(SetTy(s1, i, expected), LAMBDA s2 :
         Bind(RebindOrigin(s2, i, expected), LAMBDA s3 :
             pop_unres(s3, i))))

\* for i, t in list(env.unresolved.items()): the list is copied before the
\* loop, so entries popped on the way are still visited.  A dict iterates in
\* insertion order, which is the order of the node ids 1..n.
RECURSIVE UnifyLoop(_, _, _, _, _, _, _)
UnifyLoop(s, nd, i, n, items, ty, expected) ==
    IF i > n THEN s
    ELSE Bind(IF i \in DOMAIN items
              THEN UnifyEntry(s, nd, i, items[i], ty, expected)
              ELSE s,
              LAMBDA s1 : UnifyLoop(s1, nd, i + 1, n, items, ty, expected))

\* A faulty variant of UnifyF: the class of the expected type is checked after the
\* loop has run, so a mismatch is reported with the writes already made.
UnifyF_CheckLate(s, nd, ty, expected, class_ok) ==
    Bind(UnifyLoop(s, nd, 1, Len(s.expr_ty), s.unresolved, ty, expected), LAMBDA r :
        IF class_ok THEN r ELSE Raise(r, "type-error"))

\* unify.f
UnifyF(s, nd, ty, expected, class_ok) ==
    IF class_ok
    THEN UnifyLoop(s, nd, 1, Len(s.expr_ty), s.unresolved, ty, expected)
    ELSE Raise(s, "type-error")

UnifyBody(s, nd, ty, expected) ==
    CASE ty.k = "Int" -> UnifyF(s, nd, ty, expected, is_int(expected))
      [] ty.k = "Float" -> UnifyF(s, nd, ty, expected, is_float(expected))
      [] ty.k = "Normal" -> IF ~TyEq(ty.ty, expected) THEN Raise(s, "type-error") ELSE s
      [] OTHER -> Raise(s, "unreachable")

\* unify(env, ty, expected), with the call added to the step's call log
unify(s, nd, ty, expected) ==
    Bind(s, LAMBDA s0 :
    Bind(UnifyBody(s0, nd, ty, expected), LAMBDA r :
        [r EXCEPT !.unify_calls =
            Append(@, [ty |-> ty, expected |-> expected, ok |-> r.err = "none",
                       pre |-> Snapshot(s0), post |-> Snapshot(r)])]))

\* ------------------------------------------------------------------ infer
\* the tail of infer (lines 212-218): register a placeholder as unresolved,
\* write a Normal type into the slot, return the type
InferReturn(s, e, ty) ==
    [s |-> IF IsPlaceholder(ty)
           THEN [s EXCEPT !.unresolved = Put(@, e, ty), !.inferred = Put(@, e, ty)]
           ELSE [s EXCEPT !.expr_ty = Put(@, e, ty.ty), !.inferred = Put(@, e, ty)],
     ty |-> ty]

InferFail(s, what) == [s |-> Raise(s, what), ty |-> Normal(NoneTy)]

\* the combination of the operand types of a Binary (lines 194-209)
Combine(s, nd, e, t1, t2) ==
    IF ~TEq(t1, t2)
    THEN CASE t1.k = "Normal" /\ t2.k = "Normal" ->
                 IF TyEq(t1.ty, t2.ty) THEN [s |-> s, ty |-> t1]
                 ELSE InferFail(s, "type-error")
           [] t1.k = "Int" /\ t2.k = "Int" -> [s |-> s, ty |-> IntT(e)]
           [] t1.k = "Float" /\ t2.k = "Float" -> [s |-> s, ty |-> FloatT(e)]
           [] t1.k = "Normal" /\ IsPlaceholder(t2) ->
                 [s |-> unify(s, nd, t2, t1.ty), ty |-> t1]
           [] IsPlaceholder(t1) /\ t2.k = "Normal" ->
                 [s |-> unify(s, nd, t1, t2.ty), ty |-> t1]
           [] OTHER -> InferFail(s, "assert")
    ELSE [s |-> s, ty |-> t1]

\* what infer made of Binary node e, for the step's log
LogBinary(r, e, t1, t2) ==
    [r EXCEPT !.s.binary_log =
        Append(@, [node |-> e, t1 |-> t1, t2 |-> t2, err |-> r.s.err, ret |-> r.ty,
                   slot |-> r.s.expr_ty[e],
                   unres |-> e \in DOMAIN r.s.unresolved])]

\* A faulty variant of InferIdent: an identifier that refers to a placeholder gets a
\* placeholder of its own node id instead of the one the name is bound to.
InferIdent_OwnId(s, e, name) ==
    Bind([s EXCEPT !.binding_id = Put(@, e, name)], LAMBDA s1 :
        IF name \in DOMAIN s1.bindings
        THEN InferReturn(s1, e, IF s1.bindings[name].k = "Int" THEN IntT(e)
                                ELSE IF s1.bindings[name].k = "Float" THEN FloatT(e)
                                ELSE s1.bindings[name])
        ELSE InferFail(s1, "name-error"))

\* the Ident case of infer (lines 184-188): the node is typed with the very
\* T the name is bound to
InferIdent(s, e, name) ==
    Bind([s EXCEPT !.binding_id = Put(@, e, name)], LAMBDA s1 :
        IF name \in DOMAIN s1.bindings
        THEN InferReturn(s1, e, s1.bindings[name])
        ELSE InferFail(s1, "name-error"))

\* the end of the Binary case: combine, then the tail of infer
InferBinary(s, nd, e, t1, t2) ==
    Bind(Combine(s, nd, e, t1, t2), LAMBDA c :
    Bind(IF c.s.err # "none" THEN c ELSE InferReturn(c.s, e, c.ty), LAMBDA r :
        LogBinary(r, e, t1, t2)))

RECURSIVE infer(_, _, _)
infer(s, nd, e) ==
    Bind([s EXCEPT !.exprs = @ \cup {e}], LAMBDA s0 :
        CASE nd[e].kind = "IntLit" -> InferReturn(s0, e, IntT(e))
          [] nd[e].kind = "FloatLit" -> InferReturn(s0, e, FloatT(e))
          [] nd[e].kind = "Ident" -> InferIdent(s0, e, nd[e].name)
          [] nd[e].kind = "Binary" ->
                Bind([s0 EXCEPT !.paren_exprs =
                         Put(Put(@, nd[e].left, e), nd[e].right, e)], LAMBDA s1 :
                Bind(infer(s1, nd, nd[e].left), LAMBDA r1 :
                    IF r1.s.err # "none" THEN r1
                    ELSE Bind(infer(r1.s, nd, nd[e].right), LAMBDA r2 :
                            IF r2.s.err # "none" THEN r2
                            ELSE InferBinary(r2.s, nd, e, r1.ty, r2.ty))))
          [] OTHER -> InferFail(s0, "assert"))

\* ---------------------------------------------------------------- resolve
DefaultInt == "i64"
DefaultFloat == "f64"

\* A faulty variant of resolve: the two defaults are the narrow tags.
resolve_Narrow(s, id, ty) ==
    CASE ty.k = "Int" -> [s EXCEPT !.expr_ty = Put(@, id, "i32")]
      [] ty.k = "Float" -> [s EXCEPT !.expr_ty = Put(@, id, "f32")]
      [] OTHER -> Raise(s, "assert")

\* resolve(env, id, ty)
resolve(s, id, ty) ==
    CASE ty.k = "Int" -> [s EXCEPT !.expr_ty = Put(@, id, DefaultInt)]
      [] ty.k = "Float" -> [s EXCEPT !.expr_ty = Put(@, id, DefaultFloat)]
      [] OTHER -> Raise(s, "assert")

\* for node_id, ty in env.unresolved.items(): resolve(env, node_id, ty)
RECURSIVE ResolveAll(_, _, _)
ResolveAll(s, i, n) ==
    IF i > n THEN s
    ELSE Bind(IF i \in DOMAIN s.unresolved /\ s.err = "none"
              THEN resolve(s, i, s.unresolved[i])
              ELSE s,
              LAMBDA s1 : ResolveAll(s1, i + 1, n))

\* ------------------------------------------------------------ the program
Cur == [bindings |-> bindings, binding_id |-> binding_id, unresolved |-> unresolved,
        exprs |-> exprs, paren_exprs |-> paren_exprs, expr_ty |-> expr_ty,
        err |-> "none", inferred |-> inferred, pinned |-> pinned,
        unify_calls |-> <<>>, binary_log |-> <<>>]

Commit(s) ==
    /\ bindings' = s.bindings
    /\ binding_id' = s.binding_id
    /\ unresolved' = s.unresolved
    /\ exprs' = s.exprs
    /\ paren_exprs' = s.paren_exprs
    /\ expr_ty' = s.expr_ty
    /\ err' = s.err
    /\ inferred' = s.inferred
    /\ pinned' = s.pinned
    /\ unify_calls' = s.unify_calls
    /\ binary_log' = s.binary_log

\* Expr.__init__: a new node has an empty type slot
WithSlots(s, nd) ==
    [s EXCEPT !.expr_ty = [i \in DOMAIN nd |-> IF i \in DOMAIN @ THEN @[i] ELSE NoneTy]]

Init ==
    /\ node_id = 0
    /\ nodes = EmptyMap
    /\ expr_ty = EmptyMap
    /\ bindings = EmptyMap
    /\ binding_id = EmptyMap
    /\ unresolved = EmptyMap
    /\ exprs = {}
    /\ paren_exprs = EmptyMap
    /\ stmts = <<>>
    /\ last_expr = 0
    /\ ret_ty = NoneTy
    /\ pc = "stmts"
    /\ err = "none"
    /\ inferred = EmptyMap
    /\ pinned = {}
    /\ unify_calls = <<>>
    /\ binary_log = <<>>

\* one iteration of the loop of infer_types over a Binding(name, ty, init)
BindingBody(s, nd, name, ty, init) ==
    Bind(infer(s, nd, init), LAMBDA r :
        IF r.s.err # "none" THEN r.s
        ELSE IF ty # NoneTy
             THEN unify(add_binding(r.s, name, Normal(ty)), nd, r.ty, ty)
             ELSE add_binding(r.s, name, r.ty))

BindingStmt ==
    /\ pc = "stmts"
    /\ Len(stmts) < MaxStmts
    /\ \E name \in Names, ty \in AnnTys \cup {NoneTy}, n \in TreeSizes :
         /\ node_id + n <= MaxNodes
         /\ \E toks \in Trees(n) :
              \E b \in {Build(toks, 1, nodes, node_id)} :
              \E s \in {BindingBody(WithSlots(Cur, b.nd), b.nd, name, ty, b.root)} :
                 /\ nodes' = b.nd
                 /\ node_id' = b.cnt
                 /\ stmts' = Append(stmts, [name |-> name, ty |-> ty, init |-> b.root])
                 /\ Commit(s)
                 /\ pc' = IF s.err = "none" THEN "stmts" ELSE "failed"
                 /\ UNCHANGED <<last_expr, ret_ty>>

\* if fn.last_expr: infer it and unify its type with fn.ret_ty
LastExprBody(s, nd, e, ret) ==
    Bind(infer(s, nd, e), LAMBDA r :
        IF r.s.err # "none" THEN r.s ELSE unify(r.s, nd, r.ty, ret))

LastExpr ==
    /\ pc = "stmts"
    /\ \E ret \in RetTys, n \in TreeSizes :
         /\ node_id + n <= MaxNodes
         /\ \E toks \in Trees(n) :
              \E b \in {Build(toks, 1, nodes, node_id)} :
              \E s \in {LastExprBody(WithSlots(Cur, b.nd), b.nd, b.root, ret)} :
                 /\ nodes' = b.nd
                 /\ node_id' = b.cnt
                 /\ last_expr' = b.root
                 /\ ret_ty' = ret
                 /\ Commit(s)
                 /\ pc' = IF s.err = "none" THEN "done" ELSE "failed"
                 /\ UNCHANGED stmts

\* fn.last_expr is None: infer_types returns after the statements
NoLastExpr ==
    /\ pc = "stmts"
    /\ pc' = "done"
    /\ unify_calls' = <<>>
    /\ binary_log' = <<>>
    /\ UNCHANGED <<node_id, nodes, expr_ty, bindings, binding_id, unresolved, exprs,
                   paren_exprs, stmts, last_expr, ret_ty, err, inferred, pinned>>

\* the defaulting pass over what infer_types left unresolved
Default ==
    /\ pc = "done"
    /\ \E s \in {ResolveAll(Cur, 1, node_id)} :
          /\ Commit(s)
          /\ pc' = IF s.err = "none" THEN "defaulted" ELSE "failed"
    /\ UNCHANGED <<node_id, nodes, stmts, last_expr, ret_ty>>

Next == BindingStmt \/ LastExpr \/ NoLastExpr \/ Default

Spec == Init /\ [][Next]_vars

\* ================================================================ claims
InitOf(k) == stmts[k].init
IsIdentOf(e, name) == nodes[e].kind = "Ident" /\ nodes[e].name = name
Unannotated == \A k \in 1..Len(stmts) : stmts[k].ty = NoneTy
PassEnded == pc \in {"done", "failed"} /\ last_expr # 0
SlotsAre(t) ==
    /\ expr_ty[last_expr] = t
    /\ \A k \in 1..Len(stmts) : expr_ty[InitOf(k)] = t

\* ---- C1
\* v0 = <int literal>; v1 = v0; ...; vn = v(n-1), no annotations, and a
\* trailing identifier that names one of the vk
IsAliasChain ==
    /\ Len(stmts) >= 1
    /\ Unannotated
    /\ nodes[InitOf(1)].kind = "IntLit"
    /\ \A k \in 2..Len(stmts) : IsIdentOf(InitOf(k), stmts[k - 1].name)
    /\ \E k \in 1..Len(stmts) : IsIdentOf(last_expr, stmts[k].name)

\* C1: alias-chain resolution.  When the statements are an alias chain of an
\* integer literal, the trailing expression is an identifier naming a member
\* of the chain and the return type is an integer type C, infer_types
\* succeeds and the literal node, every initializer identifier node and the
\* trailing node have type slot C.
C1_AliasChain ==
    (PassEnded /\ IsAliasChain /\ is_int(ret_ty)) => (pc = "done" /\ SlotsAre(ret_ty))

\* a chain of three bindings with a = ..., b = a first, whose trailing
\* expression names the head of the chain
C1_Witness ==
    /\ pc = "done" /\ last_expr # 0 /\ IsAliasChain /\ is_int(ret_ty)
    /\ Len(stmts) = 3
    /\ stmts[1].name # stmts[2].name
    /\ IsIdentOf(last_expr, stmts[1].name)
    /\ SlotsAre(ret_ty)

\* ---- C2
BinaryNodes == {e \in DOMAIN nodes : nodes[e].kind = "Binary"}
Family(e) == {e, nodes[e].left, nodes[e].right}

\* C2: binary propagation.  After a successful infer_types, a Binary node
\* one of whose operands, or which itself, has been given a concrete type C
\* has C in its own slot and in the slots of both operands.
C2_BinaryPropagation ==
    pc = "done" =>
        \A e \in BinaryNodes : \A x \in Family(e) :
            expr_ty[x] # NoneTy => \A y \in Family(e) : expr_ty[y] = expr_ty[x]

\* ---- C3
\* C3: defaulting completeness.  After infer_types has succeeded and resolve
\* has run on every entry left in the unresolved set, every node has been
\* inferred and has a non-empty type slot, and every node that infer typed
\* with a placeholder and whose slot no unify call wrote carries i64 (integer
\* placeholder) or f64 (float placeholder).
C3_DefaultingCompleteness ==
    pc = "defaulted" =>
        \A i \in DOMAIN nodes :
            /\ i \in DOMAIN inferred
            /\ expr_ty[i] # NoneTy
            /\ (i \notin pinned /\ inferred[i].k = "Int") => expr_ty[i] = "i64"
            /\ (i \notin pinned /\ inferred[i].k = "Float") => expr_ty[i] = "f64"

\* a defaulted tree with an integer node and a float node left to the
\* defaults beside a node that a unification pinned to another type
C3_Witness ==
    /\ pc = "defaulted"
    /\ \E i \in DOMAIN nodes : i \notin pinned /\ inferred[i].k = "Int" /\ expr_ty[i] = "i64"
    /\ \E i \in DOMAIN nodes : i \notin pinned /\ inferred[i].k = "Float" /\ expr_ty[i] = "f64"
    /\ \E i \in pinned : expr_ty[i] = "i32"

\* ---- C4
BothNormal(b) == b.t1.k = "Normal" /\ b.t2.k = "Normal"

\* C4: infer on a Binary whose operand types are both Normal fails with a
\* type error when the two concrete types differ, and returns that Normal
\* type when they are equal.
C4_ResolvedOperandsMustAgree ==
    \A k \in 1..Len(binary_log) :
        LET b == binary_log[k]
        IN BothNormal(b) =>
              IF b.t1.ty # b.t2.ty THEN b.err = "type-error"
              ELSE b.err = "none" /\ b.ret = b.t1

\* ---- C5
ClassMismatch(c) ==
    \/ c.ty.k = "Int" /\ is_float(c.expected)
    \/ c.ty.k = "Float" /\ is_int(c.expected)

\* C5: a unify call of an integer placeholder against a float type, or of a
\* float placeholder against an integer type, fails with a type error, ends
\* the pass, and leaves every type slot, binding, binding-origin entry and
\* unresolved-set entry as it found them.
C5_ClassMismatchRejected ==
    \A k \in 1..Len(unify_calls) :
        LET c == unify_calls[k]
        IN ClassMismatch(c) =>
              /\ ~c.ok
              /\ c.post = c.pre
              /\ k = Len(unify_calls)
              /\ err = "type-error"
              /\ pc = "failed"

\* a rejected call whose placeholder still had entries in the unresolved
\* set, one of them bound to a name: an accepted call would have written
C5_Witness ==
    \E k \in 1..Len(unify_calls) :
        LET c == unify_calls[k]
        IN /\ ClassMismatch(c)
           /\ ~c.ok
           /\ \E i \in DOMAIN c.pre.unresolved :
                 /\ TEq(c.pre.unresolved[i], c.ty)
                 /\ i \in DOMAIN c.pre.binding_id

\* ---- C6
\* C6: annotation precedence.  While the pass has not failed, the initializer
\* node of every annotated binding processed so far has the annotation in its
\* type slot, and right after the binding is processed its name is bound to
\* Normal(annotation).
C6_AnnotationPrecedence ==
    pc \in {"stmts", "done"} =>
        /\ \A k \in 1..Len(stmts) :
              stmts[k].ty # NoneTy => expr_ty[InitOf(k)] = stmts[k].ty
        /\ (pc = "stmts" /\ Len(stmts) > 0 /\ stmts[Len(stmts)].ty # NoneTy) =>
              bindings[stmts[Len(stmts)].name] = Normal(stmts[Len(stmts)].ty)

\* ---- C7
\* a = <int literal>; b = a; b = b with a trailing identifier a or b
IsShadowRebind ==
    /\ Len(stmts) = 3
    /\ Unannotated
    /\ nodes[InitOf(1)].kind = "IntLit"
    /\ stmts[2].name # stmts[1].name
    /\ IsIdentOf(InitOf(2), stmts[1].name)
    /\ stmts[3].name = stmts[2].name
    /\ IsIdentOf(InitOf(3), stmts[2].name)
    /\ nodes[last_expr].kind = "Ident"

\* C7: shadow rebinding.  For a = <int literal>; b = a; b = b, a trailing
\* identifier and an integer return type C, infer_types succeeds and the
\* three initializer nodes and the trailing node have type slot C.
C7_ShadowRebinding ==
    (PassEnded /\ IsShadowRebind /\ is_int(ret_ty)) => (pc = "done" /\ SlotsAre(ret_ty))

\* the rebinding program constrained through the rebound name
C7_Witness ==
    /\ pc = "done" /\ last_expr # 0 /\ IsShadowRebind /\ is_int(ret_ty)
    /\ IsIdentOf(last_expr, stmts[3].name)
    /\ SlotsAre(ret_ty)

\* ---- C8
OneNormalOnePlaceholder(b) ==
    \/ b.t1.k = "Normal" /\ IsPlaceholder(b.t2)
    \/ IsPlaceholder(b.t1) /\ b.t2.k = "Normal"
NormalOf(b) == IF b.t1.k = "Normal" THEN b.t1 ELSE b.t2

\* C8: when infer combines a Binary with one Normal(C) operand and one
\* placeholder operand, in either order, and does not fail, it returns
\* Normal(C), the Binary node has C in its slot and is not in the unresolved
\* set.
C8_MixedBinaryIsResolved ==
    \A k \in 1..Len(binary_log) :
        LET b == binary_log[k]
        IN (OneNormalOnePlaceholder(b) /\ b.err = "none") =>
              /\ b.ret = NormalOf(b)
              /\ b.slot = NormalOf(b).ty
              /\ ~b.unres

\* ---- C9
\* the nodes whose type slot a logged unify call changed
Written(c) == {i \in DOMAIN c.post.expr_ty :
                  i \notin DOMAIN c.pre.expr_ty \/ c.pre.expr_ty[i] # c.post.expr_ty[i]}

\* C9: after a successful unify call on a placeholder P no name is bound to
\* P, nor to the placeholder of a node whose type slot the call wrote.
C9_NoNameLeftOnPinnedPlaceholder ==
    \A k \in 1..Len(unify_calls) :
        LET c == unify_calls[k]
        IN (c.ok /\ IsPlaceholder(c.ty)) =>
              \A n \in DOMAIN c.post.bindings :
                  /\ ~TEq(c.post.bindings[n], c.ty)
                  /\ \A i \in Written(c) :
                        (i \in DOMAIN inferred /\ IsPlaceholder(inferred[i]))
                            => ~TEq(c.post.bindings[n], inferred[i])

\* ---- C10
\* C10: a unify call on a placeholder P changes the bindings entry of a name
\* only if the name was bound to P when the call was made.
C10_UnifyRebindsOnlyItsPlaceholder ==
    \A k \in 1..Len(unify_calls) :
        LET c == unify_calls[k]
        IN IsPlaceholder(c.ty) =>
              \A n \in DOMAIN c.pre.bindings :
                  c.post.bindings[n] # c.pre.bindings[n] => c.pre.bindings[n] = c.ty

====
